---- MODULE Spec2Model ----
(***************************************************************************)
(* run_qemu_validation.py: the Supervisor (main), the two Stream Relays    *)
(* (_stream_reader on the child's stdout and stderr) and the child process *)
(* they supervise, as one state machine.  Every statement of main() that   *)
(* another thread or the child can observe is one step of the Supervisor.  *)
(***************************************************************************)
EXTENDS Integers, Sequences, FiniteSets, TLC

\* ------------------------------------------------------------- bounds
\* Lines the child writes in one run, over both channels.
MaxLines == 2
\* Lines an OS pipe holds before the child's next write blocks.
PipeCapacity == 1
\* Calls of _kill_process_tree on one handle, taken on its own.
MaxKills == 2
\* Longest elapsed duration given to _write_timing, in hundredths of a
\* second: a little over two minutes.
MaxHundredths == 12500

\* ---------------------------------------------------- program constants
\* divmod(elapsed_seconds, 60)
SecondsPerMinute == 60
\* Fraction bits of a Python float.
MantissaBits == 52
\* return_code = 1 when the second wait expires too.
ForcedReturnCode == 1
\* return 1 after the timeout message.
TimeoutReturn == 1
\* return 1 after the 'Boot did not succeed' message.
BootFailReturn == 1
\* Popen.returncode of a child ended by SIGKILL (-signal.SIGKILL).
KilledCode == -9
\* Popen.returncode / return_code / main's result while not yet set (None).
Unset == -100

Channels == {"stdout", "stderr"}
\* Exit codes a child may end with on its own.
ExitCodes == {0, 1, 3}
\* <patina_qemu_repo>/Build/shutdown_drive: absent, present without UefiLogs,
\* present with UefiLogs.
FsStates == {"absent", "drive", "logs"}

\* The two messages main() writes itself, as log / console entries.
TimeoutMsg == <<"main", 1>>
FailureMsg == <<"main", 2>>

VARIABLES
    shutdown_after_run, \* config["shutdown_after_run"]
    fs,                 \* state of the shutdown_drive directory
    pc,                 \* the Supervisor's position in main()
    child,              \* "none" | "running" | "exited" | "killed"
    exit_status,        \* the child's exit status (Unset while it runs)
    script,             \* the channels of the lines the child has yet to write
    sent,               \* lines the child has written, per channel
    pipe,               \* lines in flight in each OS pipe
    held,               \* channels whose pipe a descendant still holds open
    rpc,                \* each relay thread's position in _stream_reader
    cur,                \* the line each relay has read and not finished
    log_open,           \* whether log_fh (the relays' handle) is open
    log,                \* the log file's content, in order
    mirror,             \* what was written to sys.stderr.buffer, in order
    timed_out,          \* main()'s timed_out
    first_wait,         \* how process.wait(SUBPROCESS_TIMEOUT_SECONDS) ended
    return_code,        \* main()'s return_code
    retval,             \* what main() returned (Unset before it returns)
    kill_count,         \* calls of _kill_process_tree
    abandoned,          \* relays whose join(timeout) expired
    timing_count,       \* calls of _write_timing
    trace,              \* the steps main() has taken, in order
    elapsed_seconds,    \* _write_timing's argument, in hundredths of a second
    elapsed_display,    \* timing_data["elapsed_display"]
    raw,                \* the JSON object _load_config parses
    config,             \* the dict _load_config returns
    cmd                 \* the command line main() builds

vars == <<shutdown_after_run, fs, pc, child, exit_status, script, sent,
          pipe, held, rpc, cur, log_open, log, mirror, timed_out, first_wait,
          return_code, retval, kill_count, abandoned, timing_count, trace,
          elapsed_seconds, elapsed_display, raw, config, cmd>>

supVars == <<pc, timed_out, first_wait, return_code, retval, kill_count,
             abandoned, timing_count, trace>>
childVars == <<child, exit_status, script, sent, held>>
relayVars == <<rpc, cur>>
cfgVars == <<shutdown_after_run, fs>>
\* What _write_timing and the building of the command line read and write.
fnVars == <<elapsed_seconds, elapsed_display, raw, config, cmd>>

\* The lines of channel ch in sequence s, in order.
RECURSIVE LinesOf(_, _)
LinesOf(s, ch) ==
    IF s = <<>> THEN <<>>
    ELSE IF Head(s)[1] = ch THEN <<Head(s)[2]>> \o LinesOf(Tail(s), ch)
         ELSE LinesOf(Tail(s), ch)

\* <<1, ..., n>>
UpTo(n) == [i \in 1..n |-> i]

InSeq(x, s) == \E i \in 1..Len(s) : s[i] = x

\* Occurrences of x in s.
RECURSIVE Count(_, _)
Count(s, x) ==
    IF s = <<>> THEN 0
    ELSE (IF Head(s) = x THEN 1 ELSE 0) + Count(Tail(s), x)

Init ==
    /\ shutdown_after_run \in BOOLEAN
    /\ fs \in FsStates
    /\ pc = "open_log"
    /\ child = "none"
    /\ exit_status = Unset
    /\ script = <<>>
    /\ sent = [ch \in Channels |-> 0]
    /\ pipe = [ch \in Channels |-> <<>>]
    /\ held = {}
    /\ rpc = [ch \in Channels |-> "idle"]
    /\ cur = [ch \in Channels |-> 0]
    /\ log_open = FALSE
    /\ log = <<>>
    /\ mirror = <<>>
    /\ timed_out = FALSE
    /\ first_wait = "pending"
    /\ return_code = Unset
    /\ retval = Unset
    /\ kill_count = 0
    /\ abandoned = {}
    /\ timing_count = 0
    /\ trace = <<>>
    /\ elapsed_seconds = 0
    /\ elapsed_display = <<>>
    /\ raw = <<>>
    /\ config = <<>>
    /\ cmd = <<>>

\* ------------------------------------------------------------ the child
\* What a child may write: every sequence of at most MaxLines lines, each
\* to stdout or to stderr.
Scripts == UNION {[1..n -> Channels] : n \in 0..MaxLines}

\* The child writes its next line to channel ch; the write blocks while that
\* channel's pipe is full.
ChildWrite(ch) ==
    /\ child = "running"
    /\ script # <<>>
    /\ Head(script) = ch
    /\ Len(pipe[ch]) < PipeCapacity
    /\ script' = Tail(script)
    /\ sent' = [sent EXCEPT ![ch] = @ + 1]
    /\ pipe' = [pipe EXCEPT ![ch] = Append(@, sent[ch] + 1)]
    /\ UNCHANGED <<child, exit_status, held, supVars, relayVars, cfgVars,
                   fnVars, log_open, log, mirror>>

\* Having written all its lines, the child exits on its own with a native
\* code; the descendants it leaves behind keep the write ends of the channels
\* in h open.
ChildExit(code, h) ==
    /\ child = "running"
    /\ script = <<>>
    /\ child' = "exited"
    /\ exit_status' = code
    /\ held' = h
    /\ UNCHANGED <<script, sent, pipe, supVars, relayVars, cfgVars, fnVars,
                   log_open, log, mirror>>

ChildStep ==
    \/ \E ch \in Channels : ChildWrite(ch)
    \/ \E code \in ExitCodes, h \in SUBSET Channels : ChildExit(code, h)

\* ----------------------------------------------------------- the relays
\* stream.readline() returns b"": the pipe is empty and every write end is
\* closed.
AtEof(ch) == pipe[ch] = <<>> /\ child \in {"exited", "killed"} /\ ch \notin held

\* for line in iter(stream.readline, b""): the next line arrives.
RelayRead(ch) ==
    /\ rpc[ch] = "read"
    /\ pipe[ch] # <<>>
    /\ cur' = [cur EXCEPT ![ch] = Head(pipe[ch])]
    /\ pipe' = [pipe EXCEPT ![ch] = Tail(@)]
    /\ rpc' = [rpc EXCEPT ![ch] = "write"]
    /\ UNCHANGED <<childVars, supVars, cfgVars, fnVars, log_open, log, mirror>>

\* The loop ends at end-of-stream; stream.close().
RelayEof(ch) ==
    /\ rpc[ch] = "read"
    /\ AtEof(ch)
    /\ rpc' = [rpc EXCEPT ![ch] = "done"]
    /\ UNCHANGED <<cur, pipe, childVars, supVars, cfgVars, fnVars, log_open,
                   log, mirror>>

\* log_file_handle.write(line): ValueError on a closed file ends the thread.
RelayWrite(ch) ==
    /\ rpc[ch] = "write"
    /\ IF log_open
       THEN /\ log' = Append(log, <<ch, cur[ch]>>)
            /\ rpc' = [rpc EXCEPT ![ch] = "flush"]
       ELSE /\ log' = log
            /\ rpc' = [rpc EXCEPT ![ch] = "crashed"]
    /\ UNCHANGED <<cur, pipe, childVars, supVars, cfgVars, fnVars, log_open,
                   mirror>>

\* The relay forwards whatever its channel: forward_to is never None.
RelayFlushForwardAll(ch) ==
    /\ rpc[ch] = "flush"
    /\ rpc' = [rpc EXCEPT ![ch] = IF ~log_open THEN "crashed" ELSE "forward"]
    /\ UNCHANGED <<cur, pipe, childVars, supVars, cfgVars, fnVars, log_open,
                   log, mirror>>

\* log_file_handle.flush(): ValueError on a closed file ends the thread;
\* forward_to is None for stdout and sys.stderr.buffer for stderr.
RelayFlush(ch) ==
    /\ rpc[ch] = "flush"
    /\ rpc' = [rpc EXCEPT ![ch] =
                 IF ~log_open THEN "crashed"
                 ELSE IF ch = "stderr" THEN "forward" ELSE "read"]
    /\ UNCHANGED <<cur, pipe, childVars, supVars, cfgVars, fnVars, log_open,
                   log, mirror>>

\* forward_to.write(line); forward_to.flush()
RelayForward(ch) ==
    /\ rpc[ch] = "forward"
    /\ mirror' = Append(mirror, <<ch, cur[ch]>>)
    /\ rpc' = [rpc EXCEPT ![ch] = "read"]
    /\ UNCHANGED <<cur, pipe, childVars, supVars, cfgVars, fnVars, log_open,
                   log>>

RelayStep(ch) ==
    \/ RelayRead(ch)
    \/ RelayEof(ch)
    \/ RelayWrite(ch)
    \/ RelayFlush(ch)
    \/ RelayForward(ch)

\* A relay thread that is started and has not ended.
RelayAlive(ch) == rpc[ch] \in {"read", "write", "flush", "forward"}

\* ------------------------------------------------------- the Supervisor
\* start_time = time.monotonic(); with log_path.open("ab") as log_fh:
OpenLog ==
    /\ pc = "open_log"
    /\ log_open' = TRUE
    /\ pc' = "popen"
    /\ trace' = Append(trace, "start_time")
    /\ UNCHANGED <<timed_out, first_wait, return_code, retval, kill_count,
                   abandoned, timing_count, childVars, relayVars, cfgVars,
                   fnVars, pipe, log, mirror>>

\* process = subprocess.Popen(cmd, stdout=PIPE, stderr=PIPE, ...)
Popen ==
    /\ pc = "popen"
    /\ child' = "running"
    /\ script' \in Scripts
    /\ pc' = "start_stdout"
    /\ trace' = Append(trace, "popen")
    /\ UNCHANGED <<timed_out, first_wait, return_code, retval, kill_count,
                   abandoned, timing_count, exit_status, sent, held, relayVars,
                   cfgVars, fnVars, pipe, log_open, log, mirror>>

\* Popen raises and the error is swallowed: main() goes on to start the
\* relays.
PopenRaisesSwallowed ==
    /\ pc = "popen"
    /\ pc' = "start_stdout"
    /\ UNCHANGED <<trace, timed_out, first_wait, return_code, retval,
                   kill_count, abandoned, timing_count, childVars, relayVars,
                   cfgVars, fnVars, pipe, log_open, log, mirror>>

\* Popen raises (command not found, permission denied): the with block
\* closes log_fh and the error leaves main().
PopenRaises ==
    /\ pc = "popen"
    /\ log_open' = FALSE
    /\ pc' = "raised"
    /\ UNCHANGED <<trace, timed_out, first_wait, return_code, retval,
                   kill_count, abandoned, timing_count, childVars, relayVars,
                   cfgVars, fnVars, pipe, log, mirror>>

\* stdout_thread.start()
StartStdoutThread ==
    /\ pc = "start_stdout"
    /\ rpc' = [rpc EXCEPT !["stdout"] = "read"]
    /\ pc' = "start_stderr"
    /\ UNCHANGED <<trace, timed_out, first_wait, return_code, retval,
                   kill_count, abandoned, timing_count, childVars, cur,
                   cfgVars, fnVars, pipe, log_open, log, mirror>>

\* StartStderrThread with the channels drained one after the other: the
\* stderr relay starts once the stdout relay has reached end-of-stream.
StartStderrAfterStdout ==
    /\ pc = "start_stderr"
    /\ rpc["stdout"] = "done"
    /\ rpc' = [rpc EXCEPT !["stderr"] = "read"]
    /\ timed_out' = FALSE
    /\ pc' = "wait"
    /\ UNCHANGED <<trace, first_wait, return_code, retval, kill_count,
                   abandoned, timing_count, childVars, cur, cfgVars, fnVars,
                   pipe, log_open, log, mirror>>

\* stderr_thread.start(); timed_out = False
StartStderrThread ==
    /\ pc = "start_stderr"
    /\ rpc' = [rpc EXCEPT !["stderr"] = "read"]
    /\ timed_out' = FALSE
    /\ pc' = "wait"
    /\ UNCHANGED <<trace, first_wait, return_code, retval, kill_count,
                   abandoned, timing_count, childVars, cur, cfgVars, fnVars,
                   pipe, log_open, log, mirror>>

\* The first wait returns and main() kills the process tree all the same.
WaitReturnsThenKill ==
    /\ pc = "wait"
    /\ child \in {"exited", "killed"}
    /\ return_code' = exit_status
    /\ first_wait' = "returned"
    /\ pc' = "kill"
    /\ trace' = Append(trace, "wait")
    /\ UNCHANGED <<timed_out, retval, kill_count, abandoned, timing_count,
                   childVars, relayVars, cfgVars, fnVars, pipe, log_open, log,
                   mirror>>

\* return_code = process.wait(timeout=SUBPROCESS_TIMEOUT_SECONDS) returns.
WaitReturns ==
    /\ pc = "wait"
    /\ child \in {"exited", "killed"}
    /\ return_code' = exit_status
    /\ first_wait' = "returned"
    /\ pc' = "join_stdout"
    /\ trace' = Append(trace, "wait")
    /\ UNCHANGED <<timed_out, retval, kill_count, abandoned, timing_count,
                   childVars, relayVars, cfgVars, fnVars, pipe, log_open, log,
                   mirror>>

\* except subprocess.TimeoutExpired: timed_out = True
WaitTimeoutExpired ==
    /\ pc = "wait"
    /\ child = "running"
    /\ timed_out' = TRUE
    /\ first_wait' = "expired"
    /\ pc' = "kill"
    /\ trace' = Append(trace, "wait")
    /\ UNCHANGED <<return_code, retval, kill_count, abandoned, timing_count,
                   childVars, relayVars, cfgVars, fnVars, pipe, log_open, log,
                   mirror>>

\* _kill_process_tree(process): SIGKILL to the process group (taskkill /T on
\* Windows).  Effective, it ends the child and every descendant; a group that
\* is gone (ProcessLookupError) or a failed taskkill changes nothing.
KillGroup(effective) ==
    IF effective
    THEN /\ held' = {}
         /\ child' = IF child = "running" THEN "killed" ELSE child
         /\ exit_status' = IF child = "running" THEN KilledCode
                           ELSE exit_status
    ELSE UNCHANGED <<held, child, exit_status>>

\* except subprocess.TimeoutExpired: _kill_process_tree(process)
KillProcessTree(effective) ==
    /\ pc = "kill"
    /\ kill_count' = kill_count + 1
    /\ KillGroup(effective)
    /\ pc' = "rewait"
    /\ trace' = Append(trace, "kill")
    /\ UNCHANGED <<timed_out, first_wait, return_code, retval, abandoned,
                   timing_count, script, sent, relayVars, cfgVars, fnVars,
                   pipe, log_open, log, mirror>>

\* return_code = process.wait(timeout=THREAD_JOIN_TIMEOUT_SECONDS) returns.
RewaitReturns ==
    /\ pc = "rewait"
    /\ child \in {"exited", "killed"}
    /\ return_code' = exit_status
    /\ pc' = "join_stdout"
    /\ trace' = Append(trace, "rewait")
    /\ UNCHANGED <<timed_out, first_wait, retval, kill_count, abandoned,
                   timing_count, childVars, relayVars, cfgVars, fnVars, pipe,
                   log_open, log, mirror>>

\* RewaitTimeoutExpired for "process.wait()" with no timeout: it never
\* expires.
RewaitNoDeadline ==
    /\ FALSE
    /\ UNCHANGED vars

\* except subprocess.TimeoutExpired: return_code = 1
RewaitTimeoutExpired ==
    /\ pc = "rewait"
    /\ child = "running"
    /\ return_code' = ForcedReturnCode
    /\ pc' = "join_stdout"
    /\ trace' = Append(trace, "rewait")
    /\ UNCHANGED <<timed_out, first_wait, retval, kill_count, abandoned,
                   timing_count, childVars, relayVars, cfgVars, fnVars, pipe,
                   log_open, log, mirror>>

\* The join of the stderr relay left out.
AfterJoinSkipsStderr(ch) == "close_log"

JoinPc(ch) == IF ch = "stdout" THEN "join_stdout" ELSE "join_stderr"
AfterJoinPc(ch) == IF ch = "stdout" THEN "join_stderr" ELSE "close_log"

\* JoinReturns with the join left out: main() goes on whether or not the
\* thread has ended.
JoinSkipped(ch) ==
    /\ pc = JoinPc(ch)
    /\ pc' = AfterJoinPc(ch)
    /\ UNCHANGED <<trace, timed_out, first_wait, return_code, retval,
                   kill_count, abandoned, timing_count, childVars, relayVars,
                   cfgVars, fnVars, pipe, log_open, log, mirror>>

\* <ch>_thread.join(timeout=THREAD_JOIN_TIMEOUT_SECONDS): the thread ended.
JoinReturns(ch) ==
    /\ pc = JoinPc(ch)
    /\ ~RelayAlive(ch)
    /\ pc' = AfterJoinPc(ch)
    /\ trace' = Append(trace, JoinPc(ch))
    /\ UNCHANGED <<timed_out, first_wait, return_code, retval, kill_count,
                   abandoned, timing_count, childVars, relayVars, cfgVars,
                   fnVars, pipe, log_open, log, mirror>>

\* <ch>_thread.join(timeout=...): the timeout passes with the thread still
\* running; join returns all the same and the thread is left behind.
JoinExpires(ch) ==
    /\ pc = JoinPc(ch)
    /\ RelayAlive(ch)
    /\ abandoned' = abandoned \cup {ch}
    /\ pc' = AfterJoinPc(ch)
    /\ trace' = Append(trace, JoinPc(ch))
    /\ UNCHANGED <<timed_out, first_wait, return_code, retval, kill_count,
                   timing_count, childVars, relayVars, cfgVars, fnVars, pipe,
                   log_open, log, mirror>>

\* CloseLog with log_fh opened outside a with block and never closed.
CloseLogLeftOpen ==
    /\ pc = "close_log"
    /\ pc' = "write_timing"
    /\ UNCHANGED <<trace, timed_out, first_wait, return_code, retval,
                   kill_count, abandoned, timing_count, childVars, relayVars,
                   cfgVars, fnVars, pipe, log_open, log, mirror>>

\* The with block ends: log_fh is closed.
CloseLog ==
    /\ pc = "close_log"
    /\ log_open' = FALSE
    /\ pc' = "write_timing"
    /\ trace' = Append(trace, "close_log")
    /\ UNCHANGED <<timed_out, first_wait, return_code, retval, kill_count,
                   abandoned, timing_count, childVars, relayVars, cfgVars,
                   fnVars, pipe, log, mirror>>

\* elapsed_seconds = ...; _write_timing(log_path, elapsed_seconds);
\* if timed_out:
WriteTiming ==
    /\ pc = "write_timing"
    /\ timing_count' = timing_count + 1
    /\ pc' = IF timed_out THEN "timeout_stderr" ELSE "check"
    /\ trace' = Append(trace, "write_timing")
    /\ UNCHANGED <<timed_out, first_wait, return_code, retval, kill_count,
                   abandoned, childVars, relayVars, cfgVars, fnVars, pipe,
                   log_open, log, mirror>>

\* sys.stderr.buffer.write(timeout_msg); flush
TimeoutStderr ==
    /\ pc = "timeout_stderr"
    /\ mirror' = Append(mirror, TimeoutMsg)
    /\ pc' = "timeout_log"
    /\ UNCHANGED <<trace, timed_out, first_wait, return_code, retval,
                   kill_count, abandoned, timing_count, childVars, relayVars,
                   cfgVars, fnVars, pipe, log_open, log>>

\* with log_path.open("ab") as log_fh: log_fh.write(timeout_msg)
\* (a handle of its own, opened and closed here)
TimeoutLog ==
    /\ pc = "timeout_log"
    /\ log' = Append(log, TimeoutMsg)
    /\ pc' = "timeout_return"
    /\ UNCHANGED <<trace, timed_out, first_wait, return_code, retval,
                   kill_count, abandoned, timing_count, childVars, relayVars,
                   cfgVars, fnVars, pipe, log_open, mirror>>

\* TimeoutReturns with "return return_code" in place of "return 1".
TimeoutReturnsCode ==
    /\ pc = "timeout_return"
    /\ retval' = return_code
    /\ pc' = "done"
    /\ UNCHANGED <<trace, timed_out, first_wait, return_code, kill_count,
                   abandoned, timing_count, childVars, relayVars, cfgVars,
                   fnVars, pipe, log_open, log, mirror>>

\* return 1
TimeoutReturns ==
    /\ pc = "timeout_return"
    /\ retval' = TimeoutReturn
    /\ pc' = "done"
    /\ UNCHANGED <<trace, timed_out, first_wait, return_code, kill_count,
                   abandoned, timing_count, childVars, relayVars, cfgVars,
                   fnVars, pipe, log_open, log, mirror>>

\* if config.get("shutdown_after_run"): if shutdown_drive.exists():
\*     if not uefi_logs.exists():
BootCheckFails == shutdown_after_run /\ fs = "drive"

CheckArtifact ==
    /\ pc = "check"
    /\ pc' = IF BootCheckFails THEN "fail_stderr" ELSE "return"
    /\ UNCHANGED <<trace, timed_out, first_wait, return_code, retval,
                   kill_count, abandoned, timing_count, childVars, relayVars,
                   cfgVars, fnVars, pipe, log_open, log, mirror>>

\* sys.stderr.buffer.write(failure_msg); flush
FailStderr ==
    /\ pc = "fail_stderr"
    /\ mirror' = Append(mirror, FailureMsg)
    /\ pc' = "fail_log"
    /\ UNCHANGED <<trace, timed_out, first_wait, return_code, retval,
                   kill_count, abandoned, timing_count, childVars, relayVars,
                   cfgVars, fnVars, pipe, log_open, log>>

\* FailLog with the timeout message written in place of failure_msg.
FailLogTimeoutMsg ==
    /\ pc = "fail_log"
    /\ log' = Append(log, TimeoutMsg)
    /\ pc' = "fail_return"
    /\ UNCHANGED <<trace, timed_out, first_wait, return_code, retval,
                   kill_count, abandoned, timing_count, childVars, relayVars,
                   cfgVars, fnVars, pipe, log_open, mirror>>

\* with log_path.open("ab") as log_fh: log_fh.write(failure_msg)
FailLog ==
    /\ pc = "fail_log"
    /\ log' = Append(log, FailureMsg)
    /\ pc' = "fail_return"
    /\ UNCHANGED <<trace, timed_out, first_wait, return_code, retval,
                   kill_count, abandoned, timing_count, childVars, relayVars,
                   cfgVars, fnVars, pipe, log_open, mirror>>

\* return 1
FailReturns ==
    /\ pc = "fail_return"
    /\ retval' = BootFailReturn
    /\ pc' = "done"
    /\ UNCHANGED <<trace, timed_out, first_wait, return_code, kill_count,
                   abandoned, timing_count, childVars, relayVars, cfgVars,
                   fnVars, pipe, log_open, log, mirror>>

\* Returns with "return 0" in place of "return return_code".
ReturnsZero ==
    /\ pc = "return"
    /\ retval' = 0
    /\ pc' = "done"
    /\ UNCHANGED <<trace, timed_out, first_wait, return_code, kill_count,
                   abandoned, timing_count, childVars, relayVars, cfgVars,
                   fnVars, pipe, log_open, log, mirror>>

\* return return_code
Returns ==
    /\ pc = "return"
    /\ retval' = return_code
    /\ pc' = "done"
    /\ UNCHANGED <<trace, timed_out, first_wait, return_code, kill_count,
                   abandoned, timing_count, childVars, relayVars, cfgVars,
                   fnVars, pipe, log_open, log, mirror>>

\* The Supervisor's steps that wait for nothing.
SupervisorRuns ==
    \/ OpenLog
    \/ Popen
    \/ PopenRaises
    \/ StartStdoutThread
    \/ StartStderrThread
    \/ \E effective \in BOOLEAN : KillProcessTree(effective)
    \/ CloseLog
    \/ WriteTiming
    \/ TimeoutStderr
    \/ TimeoutLog
    \/ TimeoutReturns
    \/ CheckArtifact
    \/ FailStderr
    \/ FailLog
    \/ FailReturns
    \/ Returns

\* A bounded wait or join ends because what it waited for happened.
SupervisorWakes ==
    \/ WaitReturns
    \/ RewaitReturns
    \/ \E ch \in Channels : JoinReturns(ch)

\* A bounded wait or join ends because its deadline passed.
SupervisorExpires ==
    \/ WaitTimeoutExpired
    \/ RewaitTimeoutExpired
    \/ \E ch \in Channels : JoinExpires(ch)

Supervisor == SupervisorRuns \/ SupervisorWakes \/ SupervisorExpires

\* sys.exit(main()): the interpreter delivers main()'s result as the exit
\* status of the process.  The relay threads are created without daemon=True,
\* so the interpreter's shutdown first waits, without a deadline, for every
\* relay thread that is still running.
SysExit ==
    /\ pc = "done"
    /\ \A ch \in Channels : ~RelayAlive(ch)
    /\ pc' = "exited"
    /\ UNCHANGED <<timed_out, first_wait, return_code, retval, kill_count,
                   abandoned, timing_count, trace, childVars, relayVars,
                   cfgVars, fnVars, pipe, log_open, log, mirror>>

Next ==
    \/ Supervisor
    \/ SysExit
    \/ ChildStep
    \/ \E ch \in Channels : RelayStep(ch)

Spec == Init /\ [][Next]_vars

\* The Supervisor's thread is scheduled and time passes: a deadline that is
\* due fires.  The child and the relays may stop at any point.
FairSpec == Spec /\ WF_vars(Supervisor)

\* Every thread and the child are scheduled (a child that has a line to
\* write writes it once the pipe has room, one that is through exits), and
\* time passes: a deadline that is due fires.
FairAllSpec ==
    /\ Spec
    /\ WF_vars(Supervisor)
    /\ WF_vars(ChildStep)
    /\ \A ch \in Channels : WF_vars(RelayStep(ch))

\* ------------------------------------- _kill_process_tree taken on its own
\* A handle of a launched child in any condition: the child running, or
\* exited with descendants still holding some of its channels, and its exit
\* status recorded by a wait or not yet.
TermInit ==
    /\ shutdown_after_run = FALSE
    /\ fs = "absent"
    /\ pc = "term"
    /\ child \in {"running", "exited"}
    /\ exit_status \in IF child = "running" THEN {Unset} ELSE ExitCodes
    /\ held \in IF child = "running" THEN {{}} ELSE SUBSET Channels
    /\ return_code \in IF child = "running" THEN {Unset}
                      ELSE {Unset, exit_status}
    /\ script = <<>>
    /\ sent = [ch \in Channels |-> 0]
    /\ pipe = [ch \in Channels |-> <<>>]
    /\ rpc = [ch \in Channels |-> "idle"]
    /\ cur = [ch \in Channels |-> 0]
    /\ log_open = FALSE
    /\ log = <<>>
    /\ mirror = <<>>
    /\ timed_out = FALSE
    /\ first_wait = "pending"
    /\ retval = Unset
    /\ kill_count = 0
    /\ abandoned = {}
    /\ timing_count = 0
    /\ trace = <<>>
    /\ elapsed_seconds = 0
    /\ elapsed_display = <<>>
    /\ raw = <<>>
    /\ config = <<>>
    /\ cmd = <<>>

\* The child and all its descendants are gone.
GroupExited == child # "running" /\ held = {}

\* _kill_process_tree without the except clause: ProcessLookupError leaves
\* the function when the group is gone.
TermKillUnguarded(effective) ==
    /\ pc = "term"
    /\ kill_count < MaxKills
    /\ kill_count' = kill_count + 1
    /\ IF GroupExited
       THEN pc' = "raised" /\ UNCHANGED <<held, child, exit_status>>
       ELSE pc' = "term" /\ KillGroup(effective)
    /\ trace' = Append(trace, "kill")
    /\ UNCHANGED <<timed_out, first_wait, return_code, retval, abandoned,
                   timing_count, script, sent, relayVars, cfgVars, fnVars,
                   pipe, log_open, log, mirror>>

\* _kill_process_tree(proc): it returns None and raises nothing, whatever
\* killpg or taskkill found.
TermKill(effective) ==
    /\ pc = "term"
    /\ kill_count < MaxKills
    /\ kill_count' = kill_count + 1
    /\ KillGroup(effective)
    /\ pc' = "term"
    /\ trace' = Append(trace, "kill")
    /\ UNCHANGED <<timed_out, first_wait, return_code, retval, abandoned,
                   timing_count, script, sent, relayVars, cfgVars, fnVars,
                   pipe, log_open, log, mirror>>

\* The child exits on its own between two calls.
TermChildExit ==
    \E code \in ExitCodes, h \in SUBSET Channels : ChildExit(code, h)

\* process.wait() on the handle records the exit status.
TermWait ==
    /\ pc = "term"
    /\ child \in {"exited", "killed"}
    /\ return_code = Unset
    /\ return_code' = exit_status
    /\ trace' = Append(trace, "wait")
    /\ UNCHANGED <<pc, timed_out, first_wait, retval, kill_count,
                   abandoned, timing_count, childVars, relayVars, cfgVars,
                   fnVars, pipe, log_open, log, mirror>>

TermNext ==
    \/ \E effective \in BOOLEAN : TermKill(effective)
    \/ TermChildExit
    \/ TermWait

TermSpec == TermInit /\ [][TermNext]_vars

\* ------------------------------------------- _write_timing taken on its own
RECURSIVE Pow2(_)
Pow2(n) == IF n = 0 THEN 1 ELSE 2 * Pow2(n - 1)

\* 2^k modulo 100.
RECURSIVE Pow2Mod100(_)
Pow2Mod100(k) == IF k = 0 THEN 1 ELSE (2 * Pow2Mod100(k - 1)) % 100

\* The binary exponent e of h hundredths of a second as a float:
\* 2^e <= h/100 < 2^(e+1), for h > 0.
Exponent(h) ==
    IF h >= 100
    THEN CHOOSE e \in 0..20 : 100 * Pow2(e) <= h /\ h < 100 * Pow2(e + 1)
    ELSE -(CHOOSE m \in 1..7 : 100 <= h * Pow2(m) /\ h * Pow2(m) < 200)

\* The float nearest to h/100 against h/100 itself: 0 when h/100 is a float,
\* 1 when the float lies above it, -1 when below.  (h * 2^(52-e)) / 100 is
\* rounded to the nearest integer to give the float's mantissa.
FloatError(h) ==
    IF h = 0 THEN 0
    ELSE LET r == (h * Pow2Mod100(MantissaBits - Exponent(h))) % 100
         IN  IF r = 0 THEN 0 ELSE IF r < 50 THEN -1 ELSE 1

\* f"{secs:.1f}" for secs = h/100 < 60, in tenths: the float's exact value is
\* rounded, a tie going to the even digit.
RoundToTenths(h) ==
    LET t == h \div 10
        d == h % 10
    IN  IF d > 5 THEN t + 1
        ELSE IF d < 5 THEN t
        ELSE IF FloatError(h) > 0 \/ (FloatError(h) = 0 /\ t % 2 = 1)
             THEN t + 1 ELSE t

\* f"{secs:.0f}" for secs = s/100: a tie (s/100 = n + 0.5, which a float
\* holds exactly) goes to the even integer.
RoundToInt(s) ==
    LET n == s \div 100
        f == s % 100
    IN  IF f > 50 \/ (f = 50 /\ n % 2 = 1) THEN n + 1 ELSE n

\* timing_data["elapsed_display"] for an elapsed time of h hundredths of a
\* second: <<"m", M, S>> is "<M>m <S>s" and <<"s", W, T>> is "<W>.<T>s".
ElapsedDisplay(h) ==
    LET minutes == h \div (SecondsPerMinute * 100)
        secs == h % (SecondsPerMinute * 100)
    IN  IF minutes >= 1
        THEN <<"m", minutes, RoundToInt(secs)>>
        ELSE <<"s", RoundToTenths(secs) \div 10, RoundToTenths(secs) % 10>>

\* _write_timing is about to be called with any elapsed time.
TimingInit ==
    /\ shutdown_after_run = FALSE
    /\ fs = "absent"
    /\ pc = "timing"
    /\ elapsed_seconds \in 0..MaxHundredths
    /\ elapsed_display = <<>>
    /\ child = "none"
    /\ exit_status = Unset
    /\ held = {}
    /\ return_code = Unset
    /\ script = <<>>
    /\ sent = [ch \in Channels |-> 0]
    /\ pipe = [ch \in Channels |-> <<>>]
    /\ rpc = [ch \in Channels |-> "idle"]
    /\ cur = [ch \in Channels |-> 0]
    /\ log_open = FALSE
    /\ log = <<>>
    /\ mirror = <<>>
    /\ timed_out = FALSE
    /\ first_wait = "pending"
    /\ retval = Unset
    /\ kill_count = 0
    /\ abandoned = {}
    /\ timing_count = 0
    /\ trace = <<>>
    /\ raw = <<>>
    /\ config = <<>>
    /\ cmd = <<>>

\* _write_timing(log_path, elapsed_seconds)
TimingWrite ==
    /\ pc = "timing"
    /\ elapsed_display' = ElapsedDisplay(elapsed_seconds)
    /\ timing_count' = timing_count + 1
    /\ pc' = "timing_done"
    /\ UNCHANGED <<trace, timed_out, first_wait, return_code, retval,
                   kill_count, abandoned, childVars, relayVars, cfgVars,
                   elapsed_seconds, raw, config, cmd, pipe, log_open, log,
                   mirror>>

TimingNext == TimingWrite

TimingSpec == TimingInit /\ [][TimingNext]_vars

\* ------------------------------ _load_config and the command line of main()
\* A JSON string is a sequence of characters, a JSON boolean a truth value:
\* <<"str", s>> and <<"bool", b>>.
TrueString == <<"t", "r", "u", "e">>

\* What the JSON may give for no_build and shutdown_after_run.
BoolValues ==
    {<<"bool", TRUE>>, <<"bool", FALSE>>} \cup
    {<<"str", s>> : s \in {TrueString, <<"T", "r", "u", "e">>,
                           <<"T", "R", "U", "E">>, <<"t", "R", "u", "E">>,
                           <<"t", "r", "u", "e", " ">>,
                           <<"f", "a", "l", "s", "e">>, <<"1">>, <<>>}}

BuildTargets == {"DEBUG", "RELEASE"}
QemuPaths == {"", "/opt/qemu"}
Platforms == {"Q35", "SBSA"}

\* _DEFAULTS
Defaults ==
    [build_target |-> "DEBUG", qemu_path |-> "",
     no_build |-> <<"bool", FALSE>>, shutdown_after_run |-> <<"bool", FALSE>>]

\* The keys every configuration has.
Required(platform) ==
    [patina_qemu_repo |-> "patina-qemu", log_file |-> "qemu.log",
     fw_patch_repo |-> "fw-patch", patina_dxe_core_repo |-> "dxe-core",
     platform |-> platform, pre_compiled_rom |-> "rom.fd",
     toolchain |-> "GCC5"]

\* A key the JSON has (with any of the values in s) or leaves out (s empty).
Optional(key, s) == [k \in {x \in {key} : s # {}} |-> CHOOSE v \in s : TRUE]

\* Either no value or one of vs.
Maybe(vs) == {{}} \cup {{v} : v \in vs}

\* str.lower()
LowerChar(c) ==
    CASE c = "T" -> "t" [] c = "R" -> "r" [] c = "U" -> "u" [] c = "E" -> "e"
      [] OTHER -> c
Lower(s) == [i \in 1..Len(s) |-> LowerChar(s[i])]

\* _coerce_bool comparing the string as it is, without lower().
CoerceBoolExact(value) ==
    IF value[1] = "bool" THEN value[2] ELSE value[2] = TrueString

\* _coerce_bool
CoerceBool(value) ==
    IF value[1] = "bool" THEN value[2] ELSE Lower(value[2]) = TrueString

\* main() is entered with any configuration as its argument.
CmdInit ==
    /\ \E platform \in Platforms, bt \in Maybe(BuildTargets),
          qp \in Maybe(QemuPaths), nb \in Maybe(BoolValues),
          sd \in Maybe(BoolValues) :
            raw = Required(platform) @@ Optional("build_target", bt)
                    @@ Optional("qemu_path", qp) @@ Optional("no_build", nb)
                    @@ Optional("shutdown_after_run", sd)
    /\ config = <<>>
    /\ cmd = <<>>
    /\ pc = "load_config"
    /\ shutdown_after_run = FALSE
    /\ fs = "absent"
    /\ elapsed_seconds = 0
    /\ elapsed_display = <<>>
    /\ child = "none"
    /\ exit_status = Unset
    /\ held = {}
    /\ return_code = Unset
    /\ script = <<>>
    /\ sent = [ch \in Channels |-> 0]
    /\ pipe = [ch \in Channels |-> <<>>]
    /\ rpc = [ch \in Channels |-> "idle"]
    /\ cur = [ch \in Channels |-> 0]
    /\ log_open = FALSE
    /\ log = <<>>
    /\ mirror = <<>>
    /\ timed_out = FALSE
    /\ first_wait = "pending"
    /\ retval = Unset
    /\ kill_count = 0
    /\ abandoned = {}
    /\ timing_count = 0
    /\ trace = <<>>

\* config = _load_config(): defaults for the keys left out, then the two
\* booleans coerced.
LoadConfig ==
    /\ pc = "load_config"
    /\ config' = [(raw @@ Defaults) EXCEPT
                     !["no_build"] = CoerceBool(@),
                     !["shutdown_after_run"] = CoerceBool(@)]
    /\ pc' = "build_cmd"
    /\ UNCHANGED <<trace, timed_out, first_wait, return_code, retval,
                   kill_count, abandoned, timing_count, childVars, relayVars,
                   cfgVars, elapsed_seconds, elapsed_display, raw, cmd, pipe,
                   log_open, log, mirror>>

\* cmd = [...] and the flags appended to it; config["shutdown_after_run"] is
\* what the check after the run reads.
BuildCmd ==
    /\ pc = "build_cmd"
    /\ cmd' = <<"sys.executable", "build_and_run_rust_binary.py",
                "--build-target", config.build_target,
                "--fw-patch-repo", config.fw_patch_repo,
                "--patina-dxe-core-repo", config.patina_dxe_core_repo,
                "--platform", config.platform,
                "--pre-compiled-rom", config.pre_compiled_rom,
                "--toolchain", config.toolchain>>
               \o (IF config.qemu_path # ""
                   THEN <<"--qemu-path", config.qemu_path>> ELSE <<>>)
               \o <<"--headless">>
               \o (IF config.no_build THEN <<"--no-build">> ELSE <<>>)
               \o (IF config.shutdown_after_run
                   THEN <<"--shutdown-after-run">> ELSE <<>>)
    /\ shutdown_after_run' = config.shutdown_after_run
    /\ pc' = "cmd_built"
    /\ UNCHANGED <<trace, timed_out, first_wait, return_code, retval,
                   kill_count, abandoned, timing_count, childVars, relayVars,
                   fs, elapsed_seconds, elapsed_display, raw, config, pipe,
                   log_open, log, mirror>>

CmdNext == LoadConfig \/ BuildCmd

CmdSpec == CmdInit /\ [][CmdNext]_vars

\* ================================================================ claims
\* main() has returned.
Done == pc \in {"done", "exited"}

\* C1 (as stated): whenever the first wait returned, timed_out is false and
\* main() returns the child's native exit code, whatever the configuration.
C1_ReturnsNativeCode ==
    first_wait = "returned" =>
        /\ ~timed_out
        /\ Done => retval = exit_status

\* C1 (amended): whenever the first wait returned, timed_out is false and
\* main() returns the child's native exit code, unless shutdown_after_run is
\* set and shutdown_drive exists without UefiLogs: then it returns 1.
C1_ReturnsNativeCodeOrBootFail ==
    first_wait = "returned" =>
        /\ ~timed_out
        /\ return_code = exit_status
        /\ Done => retval = IF BootCheckFails THEN BootFailReturn
                           ELSE exit_status

C1_Witness ==
    /\ Done
    /\ first_wait = "returned"
    /\ shutdown_after_run
    /\ fs = "logs"
    /\ exit_status = 3
    /\ retval = 3

\* C2: whenever the first wait expired, timed_out is true, _kill_process_tree
\* is called exactly once (and never again), and main() returns the sentinel 1
\* whatever return_code the second wait left: a native code observed by the
\* second wait is never what is returned in its place.
C2_TimeoutReturnsSentinel ==
    first_wait = "expired" =>
        /\ timed_out
        /\ kill_count = IF pc = "kill" THEN 0 ELSE 1
        /\ Done => /\ retval = TimeoutReturn
                   /\ return_code # TimeoutReturn => retval # return_code

C2_Witness ==
    /\ Done
    /\ first_wait = "expired"
    /\ child = "exited"
    /\ return_code = 3
    /\ retval = TimeoutReturn
    /\ kill_count = 1

\* C3: once the child is launched, main() eventually returns, in every run:
\* each wait and join of the Supervisor ends by its deadline at the latest.
C3_MainReturns == (child # "none") ~> Done

\* main() has returned although the kill did nothing, the child still runs
\* and neither relay reached end-of-stream.
C3_Witness ==
    /\ Done
    /\ child = "running"
    /\ kill_count = 1
    /\ return_code = ForcedReturnCode
    /\ abandoned = Channels
    /\ \A ch \in Channels : RelayAlive(ch)

\* C4: log_fh is never closed while a relay thread is still running.
C4_SinkClosedAfterRelaysStop ==
    ~log_open => \A ch \in Channels : ~RelayAlive(ch)

\* C5 (as stated): when main() returns after the first wait returned, the log
\* holds each channel's lines exactly once and in the order written.
C5_LogComplete ==
    (Done /\ first_wait = "returned") =>
        \A ch \in Channels : LinesOf(log, ch) = UpTo(sent[ch])

\* C5 (amended): when main() returns after the first wait returned and both
\* relay joins returned before their deadline, the log holds each channel's
\* lines exactly once and in the order written.
C5_LogCompleteWhenJoined ==
    (Done /\ first_wait = "returned" /\ abandoned = {}) =>
        \A ch \in Channels : LinesOf(log, ch) = UpTo(sent[ch])

C5_Witness ==
    /\ Done
    /\ first_wait = "returned"
    /\ abandoned = {}
    /\ sent["stdout"] >= 1
    /\ sent["stderr"] >= 1
    /\ script = <<>>
    /\ Len(log) = MaxLines

\* The child has ended and both relays have reached end-of-stream.
Drained ==
    /\ child \in {"exited", "killed"}
    /\ \A ch \in Channels : rpc[ch] = "done"

\* A descendant of the child holds a pipe open, or a relay join has expired
\* and left its relay behind.
Disturbed == held # {} \/ abandoned # {}

\* C6 (as stated): a launched child always eventually exits and both relays
\* reach end-of-stream.
C6_AlwaysDrained == (child # "none") ~> Drained

\* C6 (amended): unless a descendant holds a pipe open or a relay join
\* expires, a launched child eventually ends and both relays reach
\* end-of-stream, however its lines are spread over the two bounded pipes.
C6_DrainedUnlessDisturbed == (child # "none") ~> (Disturbed \/ Drained)

\* The child wrote more lines to stderr than the pipe holds, and none to
\* stdout, and everything was drained with no deadline passed.
C6_Witness ==
    /\ Drained
    /\ ~Disturbed
    /\ sent["stderr"] > PipeCapacity
    /\ sent["stdout"] = 0
    /\ script = <<>>
    /\ first_wait = "returned"

\* C7: when shutdown_after_run is set, the run did not time out and UefiLogs
\* does not exist (shutdown_drive absent included), main() returns non-zero
\* and the failure message is in the log.
C7_MissingArtifactFails ==
    (Done /\ shutdown_after_run /\ ~timed_out /\ fs # "logs") =>
        /\ retval # 0
        /\ InSeq(FailureMsg, log)

\* C8: when the child exits non-zero before the timeout, no 'Boot did not
\* succeed' message is written and main() returns the child's code.
C8_NoBootCheckAfterFailure ==
    (first_wait = "returned" /\ exit_status # 0) =>
        /\ ~InSeq(FailureMsg, log)
        /\ ~InSeq(FailureMsg, mirror)
        /\ Done => retval = exit_status

\* C9 (as stated): the value returned when the artifact check fails is not
\* the value returned on timeout.
C9_BootFailDistinctFromTimeout ==
    (Done /\ ~timed_out /\ BootCheckFails) => retval # TimeoutReturn

\* C9 (amended): a failed artifact check and a timeout return the same value,
\* 1; what tells them apart is the message that ends the log: the failure
\* message and never the timeout message in the one case, the timeout message
\* and never the failure message in the other.
C9_SameCodeDistinctMessage ==
    /\ (Done /\ ~timed_out /\ BootCheckFails) =>
          /\ retval = TimeoutReturn
          /\ log[Len(log)] = FailureMsg
          /\ ~InSeq(TimeoutMsg, log)
    /\ (Done /\ timed_out) =>
          /\ retval = TimeoutReturn
          /\ log[Len(log)] = TimeoutMsg
          /\ ~InSeq(FailureMsg, log)

C9_Witness ==
    /\ Done
    /\ ~timed_out
    /\ BootCheckFails
    /\ exit_status = 0
    /\ retval = TimeoutReturn

\* C10: a run whose first wait expired never ends in an error; when main()
\* returns, it returns the sentinel and the timeout message is on the error
\* channel and in the log; and the message stays the log's last entry: no
\* relay writes to the log after it.
C10_TimeoutReported ==
    /\ first_wait = "expired" => pc # "raised"
    /\ (Done /\ first_wait = "expired") =>
          /\ retval = TimeoutReturn
          /\ InSeq(TimeoutMsg, mirror)
          /\ InSeq(TimeoutMsg, log)
    /\ InSeq(TimeoutMsg, log) => log[Len(log)] = TimeoutMsg

\* main() has returned from a timed-out run whose second wait expired too,
\* and an abandoned relay has since tried to write to the log.
C10_Witness ==
    /\ Done
    /\ first_wait = "expired"
    /\ child = "running"
    /\ return_code = ForcedReturnCode
    /\ \E ch \in Channels : ch \in abandoned /\ rpc[ch] = "crashed"
    /\ log[Len(log)] = TimeoutMsg

\* C11: when the launch of the child fails, the error leaves main() at once:
\* from then on there is no child, main() is at no other step, no relay
\* thread was started, no wait, kill or join was made, and neither a return
\* code nor a result of main() exists.
C11_LaunchFailurePropagates ==
    (child = "none" /\ pc \notin {"open_log", "popen"}) =>
        /\ pc = "raised"
        /\ \A ch \in Channels : rpc[ch] = "idle"
        /\ first_wait = "pending"
        /\ kill_count = 0
        /\ timing_count = 0
        /\ trace = <<"start_time">>
        /\ return_code = Unset
        /\ retval = Unset
        /\ ~log_open

\* Popen has raised.
C11_Witness ==
    /\ pc = "raised"
    /\ child = "none"
    /\ ~log_open

\* C12: a call of _kill_process_tree on a handle whose child has exited
\* raises nothing and changes neither the child's exit status nor the status
\* a wait recorded; when the whole group is gone it changes nothing at all,
\* so the state after two calls is the state after one.
C12_KillIdempotent ==
    [][(kill_count' = kill_count + 1 /\ child = "exited") =>
          /\ pc' = pc
          /\ child' = child
          /\ exit_status' = exit_status
          /\ return_code' = return_code
          /\ held = {} => UNCHANGED <<childVars, relayVars, pipe, log_open,
                                      log, mirror, return_code, retval>>]_vars

\* Two calls were made on a handle whose group was gone from the start and
\* whose exit status a wait had recorded.
C12_Witness ==
    /\ pc = "term"
    /\ trace = <<"kill", "kill">>
    /\ child = "exited"
    /\ held = {}
    /\ exit_status = 3
    /\ return_code = 3

\* C13: for every elapsed time, the display _write_timing writes is, under
\* one minute, seconds with one decimal and below 60 ("60.0s" never shows),
\* and otherwise the whole minutes with a whole number of seconds in 0..59
\* ("<M>m 60s" never shows).
C13_DisplayInRange ==
    pc = "timing_done" =>
        IF elapsed_seconds < SecondsPerMinute * 100
        THEN /\ elapsed_display[1] = "s"
             /\ elapsed_display[2] \in 0..59
             /\ elapsed_display[3] \in 0..9
        ELSE /\ elapsed_display[1] = "m"
             /\ elapsed_display[2] =
                    elapsed_seconds \div (SecondsPerMinute * 100)
             /\ elapsed_display[3] \in 0..59

\* The flag is in s, followed by the value.
HasPair(s, flag, value) ==
    \E i \in 1..(Len(s) - 1) : s[i] = flag /\ s[i + 1] = value

\* The string is 'true' in any mix of upper and lower case.
SpellsTrue(s) ==
    /\ Len(s) = 4
    /\ s[1] \in {"t", "T"}
    /\ s[2] \in {"r", "R"}
    /\ s[3] \in {"u", "U"}
    /\ s[4] \in {"e", "E"}

\* The boolean field is given and true.
FieldTrue(key) ==
    /\ key \in DOMAIN raw
    /\ IF raw[key][1] = "bool" THEN raw[key][2] ELSE SpellsTrue(raw[key][2])

\* C14: the command line has the six required flags, each followed by the
\* configuration's value (the default build target when none is given), has
\* --headless exactly once, and has each optional flag exactly when its field
\* is set: --qemu-path with its value when qemu_path is given and not empty,
\* --no-build and --shutdown-after-run when the field is true, a string
\* counting as true exactly when it spells 'true' in any case.
C14_CommandLine ==
    pc = "cmd_built" =>
        /\ HasPair(cmd, "--build-target",
                   IF "build_target" \in DOMAIN raw THEN raw.build_target
                   ELSE "DEBUG")
        /\ HasPair(cmd, "--fw-patch-repo", raw.fw_patch_repo)
        /\ HasPair(cmd, "--patina-dxe-core-repo", raw.patina_dxe_core_repo)
        /\ HasPair(cmd, "--platform", raw.platform)
        /\ HasPair(cmd, "--pre-compiled-rom", raw.pre_compiled_rom)
        /\ HasPair(cmd, "--toolchain", raw.toolchain)
        /\ Count(cmd, "--headless") = 1
        /\ IF "qemu_path" \in DOMAIN raw /\ raw.qemu_path # ""
           THEN HasPair(cmd, "--qemu-path", raw.qemu_path)
                /\ Count(cmd, "--qemu-path") = 1
           ELSE Count(cmd, "--qemu-path") = 0
        /\ Count(cmd, "--no-build") = (IF FieldTrue("no_build") THEN 1 ELSE 0)
        /\ Count(cmd, "--shutdown-after-run") =
              (IF FieldTrue("shutdown_after_run") THEN 1 ELSE 0)

\* The command line was built from a configuration that gives no_build as
\* the string 'TRUE', a qemu path, shutdown_after_run as the string 'true '
\* and no build target.
C14_Witness ==
    /\ pc = "cmd_built"
    /\ "build_target" \notin DOMAIN raw
    /\ "no_build" \in DOMAIN raw
    /\ raw.no_build = <<"str", <<"T", "R", "U", "E">>>>
    /\ "qemu_path" \in DOMAIN raw
    /\ raw.qemu_path = "/opt/qemu"
    /\ "shutdown_after_run" \in DOMAIN raw
    /\ raw.shutdown_after_run = <<"str", <<"t", "r", "u", "e", " ">>>>
    /\ HasPair(cmd, "--build-target", "DEBUG")
    /\ Count(cmd, "--no-build") = 1
    /\ Count(cmd, "--shutdown-after-run") = 0

\* C15: in every state no line of the child's stdout is in the console
\* mirror, and the stderr lines in the mirror are the first of the stderr
\* lines in the log, in the same order, at most one line behind.
C15_StreamRouting ==
    LET mirrored == LinesOf(mirror, "stderr")
        logged == LinesOf(log, "stderr")
    IN  /\ LinesOf(mirror, "stdout") = <<>>
        /\ Len(mirrored) <= Len(logged)
        /\ mirrored = SubSeq(logged, 1, Len(mirrored))
        /\ Len(logged) - Len(mirrored) <= 1

\* The child wrote to both channels; the stdout relay has logged its line
\* and gone back to reading, and the stderr relay has logged its line and is
\* about to mirror it.
C15_Witness ==
    /\ LinesOf(log, "stdout") = <<1>>
    /\ rpc["stdout"] = "read"
    /\ LinesOf(log, "stderr") = <<1>>
    /\ LinesOf(mirror, "stderr") = <<>>
    /\ rpc["stderr"] = "forward"

\* The steps of the teardown that must come after the kill.
AfterKill == {"rewait", "join_stdout", "join_stderr"}

\* C16: _kill_process_tree is called only in a run whose first wait expired,
\* once, as the step right after that wait; in such a run the second wait and
\* the joins of the relays come after it; and a run whose first wait returned
\* never calls it, whatever its relays do later.
C16_KillOnlyAfterExpiry ==
    /\ kill_count = Count(trace, "kill")
    /\ kill_count > 0 =>
          /\ first_wait = "expired"
          /\ timed_out
          /\ kill_count = 1
          /\ SubSeq(trace, 1, 4) = <<"start_time", "popen", "wait", "kill">>
    /\ first_wait = "expired" =>
          \A i \in 1..Len(trace) :
              trace[i] \in AfterKill => \E j \in 1..(i - 1) : trace[j] = "kill"
    /\ first_wait = "returned" => kill_count = 0

\* main() has returned from a run whose first wait expired: the kill, the
\* second wait and both joins were made.
C16_Witness ==
    /\ Done
    /\ first_wait = "expired"
    /\ kill_count = 1
    /\ Count(trace, "rewait") = 1
    /\ Count(trace, "join_stdout") = 1
    /\ Count(trace, "join_stderr") = 1

\* C17: when main() has returned, whichever way the run went, it has taken
\* the start time and then launched the child, and its last four steps were
\* the join of the stdout relay, the join of the stderr relay, the closing of
\* the log and the writing of the timing record (where the elapsed time is
\* taken); each was made once and the log is closed.
C17_Finalized ==
    retval # Unset =>
        /\ Len(trace) >= 6
        /\ SubSeq(trace, 1, 2) = <<"start_time", "popen">>
        /\ SubSeq(trace, Len(trace) - 3, Len(trace)) =
              <<"join_stdout", "join_stderr", "close_log", "write_timing">>
        /\ Count(trace, "start_time") = 1
        /\ Count(trace, "join_stdout") = 1
        /\ Count(trace, "join_stderr") = 1
        /\ Count(trace, "close_log") = 1
        /\ Count(trace, "write_timing") = 1
        /\ timing_count = 1
        /\ ~log_open

\* main() has returned the boot failure from a run whose child exited in
\* time and whose stdout relay was abandoned.
C17_Witness ==
    /\ Done
    /\ first_wait = "returned"
    /\ "stdout" \in abandoned
    /\ InSeq(FailureMsg, log)
    /\ retval = BootFailReturn
    /\ timing_count = 1

\* C18: when main() has returned and a relay whose join expired is still
\* running, kept from end-of-stream by a descendant that holds its channel
\* open, the process can end and deliver main()'s result at once, without
\* waiting for that relay.
C18_ExitsDespiteRelay ==
    (Done /\ \E ch \in abandoned : RelayAlive(ch) /\ ch \in held) =>
        ENABLED SysExit

====
